---- MODULE Spec2Model ----
(***************************************************************************)
(* Model of scripts/check-plugin-versions.ts: the driver that asks         *)
(* ./scripts/changed-plugins.ts for the changed plugins, pipes each        *)
(* plugin's manifest diff into ./scripts/validate-plugin-version.ts and    *)
(* prints a report, exiting 1 when some plugin needs a version update.     *)
(*                                                                         *)
(* Text is modelled as a sequence of one-character strings, so that        *)
(* trim(), split("\n"), filter(Boolean) and join(" ") are computed as the  *)
(* script computes them.                                                   *)
(***************************************************************************)
EXTENDS Integers, Sequences, FiniteSets, TLC

VARIABLES
    argv,                  \* process.argv.slice(2): sequence of Text
    options,               \* Options {staged, branch} built by parseArgs
    pc,                    \* position of main()
    resolver,              \* what the changed-plugins subprocess answered
    changedPlugins,        \* main: const changedPlugins
    idx,                   \* main: position of the for-of loop (1-based)
    pluginsNeedingUpdate,  \* main: const pluginsNeedingUpdate
    outcomes,              \* what the subprocesses answered for each plugin checked
    cmds,                  \* command lines handed to the shell, in order
    stdout,                \* lines written by console.log, in order
    exitCode,              \* argument of process.exit, -1 while running
    diff,                  \* policy evaluator: the manifest diff on its stdin
    evalPc,                \* policy evaluator: position
    evalOut,               \* policy evaluator: outcome of the subprocess
    needsUpdate            \* validatePlugin's return value for that diff

vars == <<argv, options, pc, resolver, changedPlugins, idx, pluginsNeedingUpdate,
          outcomes, cmds, stdout, exitCode, diff, evalPc, evalOut, needsUpdate>>

mainVars == <<argv, options, pc, resolver, changedPlugins, idx, pluginsNeedingUpdate,
              outcomes, cmds, stdout, exitCode>>

evalVars == <<diff, evalPc, evalOut, needsUpdate>>

----------------------------------------------------------------------------
(* Bounds *)

MaxArgs == 2

MaxRaw == 5

MaxDiff == 3

MaxParseArgs == 3

----------------------------------------------------------------------------
(* Text *)

NL == "\n"

SP == " "

STAGED == <<"-", "-", "s", "t", "a", "g", "e", "d">>

BRANCH == <<"-", "-", "b", "r", "a", "n", "c", "h">>

HEAD == <<"H", "E", "A", "D">>

MAIN == <<"m", "a", "i", "n">>

YES == <<"Y", "E", "S">>

NO == <<"N", "O">>

CHANGED_PLUGINS == <<".", "/", "s", "c", "r", "i", "p", "t", "s", "/", "c", "h", "a", "n", "g", "e", "d", "-", "p", "l", "u", "g", "i", "n", "s", ".", "t", "s">>

VALIDATE_PLUGIN_VERSION == <<".", "/", "s", "c", "r", "i", "p", "t", "s", "/", "v", "a", "l", "i", "d", "a", "t", "e", "-", "p", "l", "u", "g", "i", "n", "-", "v", "e", "r", "s", "i", "o", "n", ".", "t", "s">>

TextsUpTo(chars, n) == UNION {[1..k -> chars] : k \in 0..n}

Range(s) == {s[k] : k \in 1..Len(s)}

IsSpace(c) == c \in {SP, NL}

\* String.prototype.trim: strips white space and line terminators at both ends.
RECURSIVE TrimStart(_)
TrimStart(s) ==
    IF s = <<>> THEN <<>>
    ELSE IF IsSpace(Head(s)) THEN TrimStart(Tail(s))
    ELSE s

RECURSIVE TrimEnd(_)
TrimEnd(s) ==
    IF s = <<>> THEN <<>>
    ELSE IF IsSpace(s[Len(s)]) THEN TrimEnd(SubSeq(s, 1, Len(s) - 1))
    ELSE s

Trim(s) == TrimEnd(TrimStart(s))

\* String.prototype.split("\n"): the segments between newlines, empty ones kept.
RECURSIVE SplitLines(_)
SplitLines(s) ==
    IF \A k \in 1..Len(s) : s[k] # NL THEN <<s>>
    ELSE LET k == CHOOSE j \in 1..Len(s) :
                     s[j] = NL /\ \A h \in 1..(j - 1) : s[h] # NL
         IN  <<SubSeq(s, 1, k - 1)>> \o SplitLines(SubSeq(s, k + 1, Len(s)))

\* Array.prototype.filter(Boolean) on strings: the empty string is falsy.
NonEmpty(t) == t # <<>>

FilterBoolean(list) == SelectSeq(list, NonEmpty)

\* Array.prototype.join(" ")
RECURSIVE JoinSpace(_)
JoinSpace(list) ==
    IF list = <<>> THEN <<>>
    ELSE IF Len(list) = 1 THEN list[1]
    ELSE list[1] \o <<SP>> \o JoinSpace(Tail(list))

----------------------------------------------------------------------------
(* parseArgs *)

DefaultOptions == [staged |-> FALSE, branch |-> HEAD]

RECURSIVE ParseLoop(_, _, _)
ParseLoop(args, i, opts) ==
    IF i > Len(args) THEN opts
    ELSE IF args[i] = STAGED
         THEN ParseLoop(args, i + 1, [opts EXCEPT !.staged = TRUE])
    ELSE IF args[i] = BRANCH /\ i + 1 <= Len(args)
         THEN ParseLoop(args, i + 2, [opts EXCEPT !.branch = args[i + 1]])
    ELSE ParseLoop(args, i + 1, opts)

parseArgs(args) == ParseLoop(args, 1, DefaultOptions)

----------------------------------------------------------------------------
(* The command lines of getChangedPlugins and validatePlugin *)

ModeFlags(opts) ==
    (IF opts.staged THEN <<STAGED>> ELSE <<>>)
    \o (IF opts.branch # HEAD THEN <<BRANCH, opts.branch>> ELSE <<>>)

ListCommand(opts) == JoinSpace(<<CHANGED_PLUGINS>> \o ModeFlags(opts))

\* the mode flags left out of the per-plugin query
DiffCommand_noFlags(pluginName, opts) == JoinSpace(<<CHANGED_PLUGINS, pluginName>>)

DiffCommand(pluginName, opts) ==
    JoinSpace(<<CHANGED_PLUGINS, pluginName>> \o ModeFlags(opts))

\* getChangedPlugins, lines 41-45: the names on a successful query, [] on a throw.
ParsePluginList(result) == FilterBoolean(SplitLines(Trim(result)))

ChangedPluginsOf(answer) ==
    IF answer.ok THEN ParsePluginList(answer.text) ELSE <<>>

----------------------------------------------------------------------------
(* validatePlugin *)

\* What the two subprocesses of validatePlugin can answer: the diff query throws;
\* the diff query succeeds and the policy pipeline throws (non-zero exit); or
\* both succeed and the policy pipeline wrote `text`.
PolicyTexts ==
    { YES \o <<NL>>, NO \o <<NL>>, <<SP>> \o YES, <<>>, YES \o <<"!", NL>> }

PluginOutcomes ==
    { [diffOk |-> FALSE, policyOk |-> FALSE, text |-> <<>>],
      [diffOk |-> TRUE, policyOk |-> FALSE, text |-> <<>>] }
    \cup { [diffOk |-> TRUE, policyOk |-> TRUE, text |-> t] : t \in PolicyTexts }

\* the comparison without the trim
IsYes_untrimmed(result) == result = YES

\* lines 64-65
IsYes(result) == Trim(result) = YES

\* the catch block answering true
validatePlugin_catchTrue(o) ==
    IF ~o.diffOk THEN TRUE
    ELSE IF ~o.policyOk THEN TRUE
    ELSE IsYes(o.text)

\* lines 48-70: true only when nothing threw and the trimmed output is YES.
validatePlugin(o) ==
    IF ~o.diffOk THEN FALSE
    ELSE IF ~o.policyOk THEN FALSE
    ELSE IsYes(o.text)

\* the diff query issued a second time after it threw
PluginCommands_retry(pluginName, opts, o) ==
    IF o.diffOk THEN <<DiffCommand(pluginName, opts), VALIDATE_PLUGIN_VERSION>>
    ELSE <<DiffCommand(pluginName, opts), DiffCommand(pluginName, opts)>>

\* the command lines validatePlugin hands to the shell for one plugin
PluginCommands(pluginName, opts, o) ==
    <<DiffCommand(pluginName, opts)>>
    \o (IF o.diffOk THEN <<VALIDATE_PLUGIN_VERSION>> ELSE <<>>)

----------------------------------------------------------------------------
(* console.log lines *)

Line(kind) == [kind |-> kind, names |-> <<>>, n |-> 0]

NameLine(kind, name) == [kind |-> kind, names |-> <<name>>, n |-> 0]

CountLine(kind, n) == [kind |-> kind, names |-> <<>>, n |-> n]

Banner == <<Line("checking-versions"), Line("rule"), Line("blank")>>

NoChangesLines == <<Line("no-plugin-changes")>>

FoundLines(plugins) ==
    <<[kind |-> "found", names |-> plugins, n |-> Len(plugins)], Line("blank")>>

\* lines 92-103
VerdictLabel(needs) == IF needs THEN "update-required" ELSE "no-update-needed"

PluginLines(pluginName, needs) ==
    <<NameLine("checking-plugin", pluginName), Line(VerdictLabel(needs)), Line("blank")>>

\* the manifest path pushed in place of the plugin name
PushIfNeeded_path(list, pluginName, needs) ==
    IF needs THEN Append(list, <<"p", "l", "u", "g", "i", "n", "s", "/">> \o pluginName)
    ELSE list

\* the name put at the front of the list
PushIfNeeded_prepend(list, pluginName, needs) ==
    IF needs THEN <<pluginName>> \o list ELSE list

\* line 98
PushIfNeeded(list, pluginName, needs) ==
    IF needs THEN Append(list, pluginName) ELSE list

\* lines 107-111
SummaryLines(plugins, needing) ==
    <<Line("rule"), Line("summary"), CountLine("total", Len(plugins)),
      CountLine("requiring", Len(needing)), Line("blank")>>

\* lines 114-119
FailureLines(needing) ==
    <<Line("need-updates")>>
    \o [k \in 1..Len(needing) |-> NameLine("needs", needing[k])]
    \o <<Line("blank"), Line("check-failed")>>

\* line 122
SuccessLines == <<Line("up-to-date")>>

\* the threshold off by one
CheckFails_offByOne(needing) == Len(needing) > 1

\* line 113
CheckFails(needing) == Len(needing) > 0

\* line 81
NothingChanged(plugins) == Len(plugins) = 0

FailExit == 1

\* the early exit reporting a failure
NoChangesExit_failure == FailExit

NoChangesExit == 0

PassExit == 0

----------------------------------------------------------------------------
(* main *)

ArgTokens == {STAGED, BRANCH, MAIN}

RawChars == {"a", NL}

ResolverAnswers ==
    { [ok |-> FALSE, text |-> <<>>] }
    \cup { [ok |-> TRUE, text |-> t] : t \in TextsUpTo(RawChars, MaxRaw) }

NoAnswer == [ok |-> FALSE, text |-> <<>>]

InitMain ==
    /\ argv \in TextsUpTo(ArgTokens, MaxArgs)
    /\ options = DefaultOptions
    /\ pc = "start"
    /\ resolver = NoAnswer
    /\ changedPlugins = <<>>
    /\ idx = 1
    /\ pluginsNeedingUpdate = <<>>
    /\ outcomes = <<>>
    /\ cmds = <<>>
    /\ stdout = <<>>
    /\ exitCode = -1

InitEvalIdle ==
    /\ diff = <<>>
    /\ evalPc = "idle"
    /\ evalOut = [ok |-> FALSE, text |-> <<>>]
    /\ needsUpdate = FALSE

Init == InitMain /\ InitEvalIdle

\* lines 73-77
Start ==
    /\ pc = "start"
    /\ options' = parseArgs(argv)
    /\ stdout' = stdout \o Banner
    /\ pc' = "resolve"
    /\ UNCHANGED <<argv, resolver, changedPlugins, idx, pluginsNeedingUpdate,
                   outcomes, cmds, exitCode>>

\* line 79 (getChangedPlugins, lines 31-46)
GetChangedPlugins ==
    /\ pc = "resolve"
    /\ \E answer \in ResolverAnswers :
          /\ resolver' = answer
          /\ changedPlugins' = ChangedPluginsOf(answer)
    /\ cmds' = Append(cmds, ListCommand(options))
    /\ pc' = "resolved"
    /\ UNCHANGED <<argv, options, idx, pluginsNeedingUpdate, outcomes, stdout, exitCode>>

\* lines 81-84
ExitNoChanges ==
    /\ pc = "resolved"
    /\ NothingChanged(changedPlugins)
    /\ stdout' = stdout \o NoChangesLines
    /\ exitCode' = NoChangesExit
    /\ pc' = "done"
    /\ UNCHANGED <<argv, options, resolver, changedPlugins, idx, pluginsNeedingUpdate,
                   outcomes, cmds>>

\* lines 86-89
ReportFound ==
    /\ pc = "resolved"
    /\ ~NothingChanged(changedPlugins)
    /\ stdout' = stdout \o FoundLines(changedPlugins)
    /\ pluginsNeedingUpdate' = <<>>
    /\ idx' = 1
    /\ pc' = "loop"
    /\ UNCHANGED <<argv, options, resolver, changedPlugins, outcomes, cmds, exitCode>>

\* lines 91-104, one iteration
CheckPlugin ==
    /\ pc = "loop"
    /\ idx <= Len(changedPlugins)
    /\ \E o \in PluginOutcomes :
          LET pluginName == changedPlugins[idx]
              needs == validatePlugin(o)
          IN  /\ outcomes' = Append(outcomes, o)
              /\ cmds' = cmds \o PluginCommands(pluginName, options, o)
              /\ stdout' = stdout \o PluginLines(pluginName, needs)
              /\ pluginsNeedingUpdate' = PushIfNeeded(pluginsNeedingUpdate, pluginName, needs)
    /\ idx' = idx + 1
    /\ UNCHANGED <<argv, options, pc, resolver, changedPlugins, exitCode>>

\* lines 106-120
SummaryFail ==
    /\ pc = "loop"
    /\ idx > Len(changedPlugins)
    /\ CheckFails(pluginsNeedingUpdate)
    /\ stdout' = stdout \o SummaryLines(changedPlugins, pluginsNeedingUpdate)
                        \o FailureLines(pluginsNeedingUpdate)
    /\ exitCode' = FailExit
    /\ pc' = "done"
    /\ UNCHANGED <<argv, options, resolver, changedPlugins, idx, pluginsNeedingUpdate,
                   outcomes, cmds>>

\* lines 106-111, 121-124
SummaryPass ==
    /\ pc = "loop"
    /\ idx > Len(changedPlugins)
    /\ ~CheckFails(pluginsNeedingUpdate)
    /\ stdout' = stdout \o SummaryLines(changedPlugins, pluginsNeedingUpdate)
                        \o SuccessLines
    /\ exitCode' = PassExit
    /\ pc' = "done"
    /\ UNCHANGED <<argv, options, resolver, changedPlugins, idx, pluginsNeedingUpdate,
                   outcomes, cmds>>

Next ==
    \/ (Start /\ UNCHANGED evalVars)
    \/ (GetChangedPlugins /\ UNCHANGED evalVars)
    \/ (ExitNoChanges /\ UNCHANGED evalVars)
    \/ (ReportFound /\ UNCHANGED evalVars)
    \/ (CheckPlugin /\ UNCHANGED evalVars)
    \/ (SummaryFail /\ UNCHANGED evalVars)
    \/ (SummaryPass /\ UNCHANGED evalVars)

Spec == Init /\ [][Next]_vars

----------------------------------------------------------------------------
(* The policy evaluator, ./scripts/validate-plugin-version.ts, as section 4.3  *)
(* of the specification describes it: its source is not part of the tree.     *)

\* One line of a unified diff of a manifest.  sign: "+" added, "-" removed,
\* " " context, "@" file or hunk header, "?" a line no diff has.
DiffLine(sign, field, value) == [sign |-> sign, field |-> field, value |-> value]

DiffLines ==
    { DiffLine(sg, "version", v) : sg \in {"+", "-"}, v \in {1, 2} }
    \cup { DiffLine(sg, "description", 1) : sg \in {"+", "-"} }
    \cup { DiffLine("+", "blank", 0), DiffLine(" ", "description", 1),
           DiffLine("@", "header", 0), DiffLine("?", "garbage", 0) }

Diffs == TextsUpTo(DiffLines, MaxDiff)

Malformed(d) == \E k \in 1..Len(d) : d[k].sign \notin {"+", "-", " ", "@"}

Content(l) == [field |-> l.field, value |-> l.value]

AddedLines(d) == { Content(d[k]) : k \in {j \in 1..Len(d) : d[j].sign = "+"} }

RemovedLines(d) == { Content(d[k]) : k \in {j \in 1..Len(d) : d[j].sign = "-"} }

\* axis (a): a version line removed and a version line added, values differing
VersionFieldChanged(added, removed) ==
    \E r \in removed : \E x \in added :
        r.field = "version" /\ x.field = "version" /\ r.value # x.value

\* axis (b): an added or removed line that is no version, blank or comment line
OtherFieldChanged(added, removed) ==
    \E l \in added \cup removed : l.field \notin {"version", "blank", "comment"}

evaluate(d) ==
    IF Malformed(d) THEN "MalformedDiffError"
    ELSE IF OtherFieldChanged(AddedLines(d), RemovedLines(d))
            /\ ~VersionFieldChanged(AddedLines(d), RemovedLines(d))
         THEN "BumpRequired"
    ELSE "NoBumpRequired"

\* What the evaluator process answers: YES or NO on stdout, with or without a
\* final newline, or a non-zero exit when it cannot parse its input.
EvaluatorAnswers(d) ==
    IF evaluate(d) = "MalformedDiffError" THEN { [ok |-> FALSE, text |-> <<>>] }
    ELSE IF evaluate(d) = "BumpRequired"
         THEN { [ok |-> TRUE, text |-> YES], [ok |-> TRUE, text |-> YES \o <<NL>>] }
    ELSE { [ok |-> TRUE, text |-> NO], [ok |-> TRUE, text |-> NO \o <<NL>>] }

InitMainIdle ==
    /\ argv = <<>>
    /\ options = DefaultOptions
    /\ pc = "idle"
    /\ resolver = NoAnswer
    /\ changedPlugins = <<>>
    /\ idx = 1
    /\ pluginsNeedingUpdate = <<>>
    /\ outcomes = <<>>
    /\ cmds = <<>>
    /\ stdout = <<>>
    /\ exitCode = -1

InitEval ==
    /\ InitMainIdle
    /\ diff \in Diffs
    /\ evalPc = "ready"
    /\ evalOut = [ok |-> FALSE, text |-> <<>>]
    /\ needsUpdate = FALSE

\* validatePlugin, lines 61-69, on a diff the diff query returned
PipeToEvaluator ==
    /\ evalPc = "ready"
    /\ \E answer \in EvaluatorAnswers(diff) :
          /\ evalOut' = answer
          /\ needsUpdate' = validatePlugin([diffOk |-> TRUE, policyOk |-> answer.ok,
                                            text |-> answer.text])
    /\ evalPc' = "done"
    /\ UNCHANGED <<diff, mainVars>>

NextEval == PipeToEvaluator

SpecEval == InitEval /\ [][NextEval]_vars

----------------------------------------------------------------------------
(* Reading the run's result back from what it printed *)

\* The per-plugin report: one entry for every "Checking plugin" line, labelled
\* by the line printed right after it.
CheckingLines ==
    SelectSeq([k \in 1..Len(stdout) |-> k], LAMBDA k : stdout[k].kind = "checking-plugin")

Report ==
    LET at == CheckingLines
    IN  [i \in 1..Len(at) |-> [name |-> stdout[at[i]].names[1],
                               label |-> stdout[at[i] + 1].kind]]

\* The names listed under "The following plugins need version updates".
ListedAsNeeding ==
    { stdout[k].names[1] : k \in {j \in 1..Len(stdout) : stdout[j].kind = "needs"} }

Finished == pc = "done"

ReachedReport == Finished /\ Len(changedPlugins) > 0

IsErrorMarker(label) == label \notin {"update-required", "no-update-needed"}

\* a subprocess of validatePlugin threw for this plugin
QueryFailed(o) == ~o.diffOk \/ ~o.policyOk

\* the policy pipeline ran and gave no YES/NO answer
PolicyUndecided(o) == o.diffOk /\ (~o.policyOk \/ Trim(o.text) \notin {YES, NO})

RunResult == [returned |-> changedPlugins, printed |-> stdout, exit |-> exitCode]

EmptyQueryResult ==
    [returned |-> <<>>, printed |-> Banner \o NoChangesLines, exit |-> 0]

----------------------------------------------------------------------------
(* Claims *)

\* C1: a finished run exits 0 exactly when no plugin of the report is labelled
\* "Version update REQUIRED", and exits 1 otherwise.
C1_PassIffNoBumpRequired ==
    Finished =>
        LET report == Report
        IN  /\ exitCode \in {0, 1}
            /\ exitCode = 0
                  <=> \A k \in 1..Len(report) : report[k].label # "update-required"

C1_Witness ==
    /\ Finished
    /\ exitCode = 1
    /\ \E k \in 1..Len(Report) : Report[k].label = "update-required"
    /\ \E k \in 1..Len(Report) : Report[k].label = "no-update-needed"

\* C2: when getChangedPlugins returns no plugin, the run ends with an empty
\* report, having issued the list query and nothing else, and exits 0; after a
\* successful query it prints the banner and "No plugin changes detected".
C2_NoChangesPasses ==
    (Finished /\ changedPlugins = <<>>) =>
        /\ Report = <<>>
        /\ ListedAsNeeding = {}
        /\ outcomes = <<>>
        /\ cmds = <<ListCommand(options)>>
        /\ exitCode = 0
        /\ resolver.ok => RunResult = EmptyQueryResult

C2_Witness ==
    /\ Finished
    /\ resolver.ok
    /\ resolver.text = <<NL, NL>>
    /\ changedPlugins = <<>>
    /\ exitCode = 0

\* C3: a run whose change-set query failed never ends with the result (returned
\* list, printed lines, exit code) of a run whose query succeeded with no plugin.
C3_FailedQueryDistinguishable ==
    (Finished /\ ~resolver.ok) => RunResult # EmptyQueryResult

\* C4: a plugin whose diff query or policy check threw is reported with an error
\* marker, never as "No version update needed".
C4_FailedPluginIsIndeterminate ==
    \A k \in 1..Len(outcomes) :
        QueryFailed(outcomes[k]) =>
            /\ IsErrorMarker(Report[k].label)
            /\ Report[k].label # "no-update-needed"

\* C5: a finished run in which some plugin's query failed reports one entry per
\* resolved plugin, an error marker for each failed one, and exits 1.
C5_FailedQueryFailsRun ==
    (Finished /\ \E k \in 1..Len(outcomes) : QueryFailed(outcomes[k])) =>
        /\ Len(Report) = Len(changedPlugins)
        /\ \A k \in 1..Len(outcomes) :
              QueryFailed(outcomes[k]) <=> IsErrorMarker(Report[k].label)
        /\ exitCode = 1

\* C6: a plugin whose policy check failed or answered neither YES nor NO is not
\* reported as "No version update needed", and the run does not exit 0.
C6_NoDefaultVerdict ==
    \A k \in 1..Len(outcomes) :
        PolicyUndecided(outcomes[k]) =>
            /\ Report[k].label # "no-update-needed"
            /\ Finished => exitCode # 0

\* C7: in a finished run that reached the report, every plugin name the resolver
\* returned has exactly one entry in the report.
C7_EveryPluginExactlyOnce ==
    ReachedReport =>
        \A name \in Range(changedPlugins) :
            Cardinality({k \in 1..Len(Report) : Report[k].name = name}) = 1

\* C8: every name in the report, in pluginsNeedingUpdate and in the printed list
\* of plugins needing an update is one getChangedPlugins returned.
C8_NoInventedPlugins ==
    LET report == Report
        resolved == Range(changedPlugins)
    IN  /\ \A k \in 1..Len(report) : report[k].name \in resolved
        /\ Range(pluginsNeedingUpdate) \subseteq resolved
        /\ ListedAsNeeding \subseteq resolved

C8_Witness ==
    /\ Finished
    /\ Len(Report) >= 2
    /\ ListedAsNeeding # {}
    /\ ListedAsNeeding # Range(changedPlugins)

\* C9: for a well-formed manifest diff, validatePlugin reports "update needed"
\* exactly when some line other than a version, blank or comment line was added
\* or removed and no version line was removed and re-added with another value.
\* So an empty diff, a version-only diff and a diff that changes the version
\* value next to other fields need no bump, and the same version removed and
\* re-added next to a new field needs one.
ChangesOtherField(d) ==
    \E k \in 1..Len(d) :
        d[k].sign \in {"+", "-"} /\ d[k].field \notin {"version", "blank", "comment"}

ChangesVersionValue(d) ==
    \E i, j \in 1..Len(d) :
        /\ d[i].sign = "-" /\ d[i].field = "version"
        /\ d[j].sign = "+" /\ d[j].field = "version"
        /\ d[i].value # d[j].value

VersionOnly(d) ==
    \A k \in 1..Len(d) : d[k].sign \in {"+", "-"} => d[k].field = "version"

ScenarioA ==
    <<DiffLine("-", "version", 1), DiffLine("+", "version", 1),
      DiffLine("+", "description", 1)>>

ScenarioB ==
    <<DiffLine("-", "version", 1), DiffLine("+", "version", 2),
      DiffLine("+", "description", 1)>>

C9_BumpIffOtherChangedAndVersionNot ==
    (evalPc = "done" /\ ~Malformed(diff)) =>
        /\ needsUpdate <=> (ChangesOtherField(diff) /\ ~ChangesVersionValue(diff))
        /\ diff = ScenarioA => needsUpdate
        /\ diff = ScenarioB => ~needsUpdate
        /\ diff = <<>> => ~needsUpdate
        /\ VersionOnly(diff) => ~needsUpdate

C9_Witness ==
    /\ evalPc = "done"
    /\ diff = ScenarioA
    /\ evalOut.text = YES \o <<NL>>
    /\ needsUpdate

\* C10: a command line with an unknown argument, or with --branch and no ref
\* after it, issues no version-control query.
RECURSIVE InvalidFrom(_, _)
InvalidFrom(args, i) ==
    IF i > Len(args) THEN FALSE
    ELSE IF args[i] = STAGED THEN InvalidFrom(args, i + 1)
    ELSE IF args[i] = BRANCH
         THEN i + 1 > Len(args) \/ InvalidFrom(args, i + 2)
    ELSE TRUE

InvalidArgs(args) == InvalidFrom(args, 1)

C10_InvalidArgsIssueNoQuery ==
    InvalidArgs(argv) => cmds = <<>>

----------------------------------------------------------------------------
(* parseArgs on its own *)

ParseTokens == {STAGED, BRANCH, MAIN, HEAD}

InitArgs ==
    /\ argv \in TextsUpTo(ParseTokens, MaxParseArgs)
    /\ options = DefaultOptions
    /\ pc = "args"
    /\ resolver = NoAnswer
    /\ changedPlugins = <<>>
    /\ idx = 1
    /\ pluginsNeedingUpdate = <<>>
    /\ outcomes = <<>>
    /\ cmds = <<>>
    /\ stdout = <<>>
    /\ exitCode = -1
    /\ InitEvalIdle

\* line 73
ParseOnly ==
    /\ pc = "args"
    /\ options' = parseArgs(argv)
    /\ pc' = "parsed"
    /\ UNCHANGED <<argv, resolver, changedPlugins, idx, pluginsNeedingUpdate,
                   outcomes, cmds, stdout, exitCode, evalVars>>

NextArgs == ParseOnly

SpecArgs == InitArgs /\ [][NextArgs]_vars

\* The modes an Options value selects, as getChangedPlugins and validatePlugin
\* read it: --staged is forwarded when staged is set, --branch when the ref is
\* not HEAD, and neither flag is the working tree against HEAD.
ModesOf(opts) ==
    (IF opts.staged THEN {"Staged"} ELSE {})
    \cup (IF opts.branch # HEAD THEN {"BranchDiff"} ELSE {})
    \cup (IF ~opts.staged /\ opts.branch = HEAD THEN {"WorkingTree"} ELSE {})

HasStaged(args) == \E i \in 1..Len(args) : args[i] = STAGED

HasBranch(args) == \E i \in 1..Len(args) : args[i] = BRANCH

\* --branch followed by a ref that is neither a flag nor HEAD
HasBranchRef(args) ==
    \E i \in 1..(Len(args) - 1) :
        args[i] = BRANCH /\ args[i + 1] \notin {STAGED, BRANCH, HEAD}

\* C11: parseArgs yields exactly one mode: Staged when --staged is given,
\* BranchDiff(ref) when --branch <ref> is given, WorkingTree (staged = false,
\* branch = HEAD) when neither is.
C11_ExactlyOneMode ==
    pc = "parsed" =>
        /\ Cardinality(ModesOf(options)) = 1
        /\ (HasStaged(argv) /\ ~HasBranch(argv)) => ModesOf(options) = {"Staged"}
        /\ (HasBranchRef(argv) /\ ~HasStaged(argv)) => "BranchDiff" \in ModesOf(options)
        /\ (~HasStaged(argv) /\ ~HasBranch(argv)) => options = DefaultOptions

----------------------------------------------------------------------------
(* Reading the command lines back *)

\* the words of a command line, as the shell splits it at spaces
SplitAtSpaces(s) ==
    LET spaces == {k \in 1..Len(s) : s[k] = SP}
        n == Cardinality(spaces)
        \* position of the i-th space; 0 and Len(s) + 1 stand for the two ends
        at(i) == IF i = 0 THEN 0
                 ELSE IF i = n + 1 THEN Len(s) + 1
                 ELSE CHOOSE k \in spaces : Cardinality({h \in spaces : h < k}) = i - 1
    IN  [i \in 1..(n + 1) |-> SubSeq(s, at(i - 1) + 1, at(i) - 1)]

\* The script path holds no space, so a command line that starts with it and a
\* space is the path followed by the words of the rest.
Words(s) ==
    LET p == Len(CHANGED_PLUGINS)
    IN  IF Len(s) > p /\ SubSeq(s, 1, p + 1) = CHANGED_PLUGINS \o <<SP>>
        THEN <<CHANGED_PLUGINS>> \o SplitAtSpaces(SubSeq(s, p + 2, Len(s)))
        ELSE SplitAtSpaces(s)

\* positions in cmds of the diff queries for plugin `name`
CommandWords == [j \in 1..Len(cmds) |-> Words(cmds[j])]

DiffQueriesIn(words, name) ==
    { j \in 2..Len(words) :
        Len(words[j]) >= 2 /\ words[j][1] = CHANGED_PLUGINS /\ words[j][2] = name }

DiffQueriesFor(name) == DiffQueriesIn(CommandWords, name)

PolicyChecks == { j \in 1..Len(cmds) : cmds[j] = VALIDATE_PLUGIN_VERSION }

Occurrences(name) == { k \in 1..Len(changedPlugins) : changedPlugins[k] = name }

DiffQueriesOncePerPlugin ==
    LET words == CommandWords
    IN  \A name \in Range(changedPlugins) :
            Cardinality(DiffQueriesIn(words, name)) = Cardinality(Occurrences(name))

\* C12 as stated: in a finished run over n >= 1 plugins the diff query and the
\* policy check were each issued exactly once per plugin.
C12_QueryAndCheckOncePerPlugin ==
    ReachedReport =>
        /\ DiffQueriesOncePerPlugin
        /\ Cardinality(PolicyChecks) = Len(changedPlugins)

\* C12 as amended: in a finished run over n >= 1 plugins every plugin was
\* checked once, the diff query was issued exactly once per plugin whatever
\* the earlier outcomes, and the policy check exactly once per plugin whose
\* diff query succeeded; nothing else was issued after the list query.
C12_OncePerPluginNoAbortNoRetry ==
    ReachedReport =>
        /\ Len(outcomes) = Len(changedPlugins)
        /\ DiffQueriesOncePerPlugin
        /\ Cardinality(PolicyChecks)
              = Cardinality({k \in 1..Len(outcomes) : outcomes[k].diffOk})
        /\ Len(cmds) = 1 + Len(changedPlugins) + Cardinality(PolicyChecks)

C12_Witness ==
    /\ ReachedReport
    /\ Len(outcomes) >= 2
    /\ ~outcomes[1].diffOk
    /\ outcomes[2].diffOk
    /\ Cardinality(PolicyChecks) = 1

----------------------------------------------------------------------------
(* A subprocess that never exits *)

\* lines 92-94 with validatePlugin's `await $.raw(...).text()` of line 59 never
\* resolving: the command was issued, "Checking plugin" was printed, and main
\* stays suspended at the await; the script sets no timer that could resume it.
QueryHangs ==
    /\ pc = "loop"
    /\ idx <= Len(changedPlugins)
    /\ cmds' = Append(cmds, DiffCommand(changedPlugins[idx], options))
    /\ stdout' = Append(stdout, NameLine("checking-plugin", changedPlugins[idx]))
    /\ pc' = "awaiting"
    /\ UNCHANGED <<argv, options, resolver, changedPlugins, idx, pluginsNeedingUpdate,
                   outcomes, exitCode>>

NextHang ==
    \/ Next
    \/ (QueryHangs /\ UNCHANGED evalVars)

\* The event loop runs whatever continuation is ready.
SpecHang == Init /\ [][NextHang]_vars /\ WF_vars(NextHang)

\* C13: a run is never blocked for good: in every state it has either finished
\* with its report or can take a step (a hung query is timed out, reported as
\* an error, and the remaining plugins are evaluated).
C13_RunNeverBlocks ==
    Finished \/ ENABLED NextHang

----------------------------------------------------------------------------
(* Reading the summary back *)

LinesOfKind(kind) == SelectSeq(stdout, LAMBDA l : l.kind = kind)

\* the names under "The following plugins need version updates", in print order
PrintedAsNeeding ==
    [k \in 1..Len(LinesOfKind("needs")) |-> LinesOfKind("needs")[k].names[1]]

ReportNames == [k \in 1..Len(Report) |-> Report[k].name]

\* the names of the report entries labelled "Version update REQUIRED", in order
RequiredEntries == SelectSeq(Report, LAMBDA e : e.label = "update-required")

RequiredNames == [k \in 1..Len(RequiredEntries) |-> RequiredEntries[k].name]

\* C14: the report lists the plugins in the resolver's order; the plugins
\* requiring an update are, in pluginsNeedingUpdate and as printed, the entries
\* labelled "Version update REQUIRED" in that same order (so a function of the
\* verdict list alone); the printed total is the number of resolved plugins and
\* the printed count is the length of that list, at most the total.
C14_OrderAndCounts ==
    ReachedReport =>
        LET required == RequiredNames
            total == LinesOfKind("total")
            requiring == LinesOfKind("requiring")
        IN  /\ ReportNames = changedPlugins
            /\ pluginsNeedingUpdate = required
            /\ exitCode = 1 => PrintedAsNeeding = required
            /\ exitCode = 0 => PrintedAsNeeding = <<>> /\ required = <<>>
            /\ Len(total) = 1
            /\ total[1].n = Len(changedPlugins)
            /\ Len(requiring) = 1
            /\ requiring[1].n = Len(required)
            /\ requiring[1].n <= total[1].n

C14_Witness ==
    /\ ReachedReport
    /\ Len(PrintedAsNeeding) = 2
    /\ PrintedAsNeeding[1] # PrintedAsNeeding[2]
    /\ LinesOfKind("total")[1].n = 2

----------------------------------------------------------------------------
\* a sequence without its k-th element
Without(seq, k) == SubSeq(seq, 1, k - 1) \o SubSeq(seq, k + 1, Len(seq))

\* C15: once parseArgs has returned, options stays what it returned; the list
\* query carries --staged iff staged is set and --branch <ref> iff the ref is
\* not HEAD; and every per-plugin query is the list query with the plugin's
\* name inserted after the script, nothing else differing.
C15_SameRequestEverywhere ==
    /\ pc # "start" => options = parseArgs(argv)
    /\ cmds # <<>> =>
          LET list == Words(cmds[1])
              n == Len(list)
          IN  /\ list[1] = CHANGED_PLUGINS
              /\ (n >= 2 /\ list[2] = STAGED) <=> options.staged
              /\ (n >= 3 /\ list[n - 1] = BRANCH /\ list[n] = options.branch)
                    <=> options.branch # HEAD
              /\ n = 1 + (IF options.staged THEN 1 ELSE 0)
                       + (IF options.branch # HEAD THEN 2 ELSE 0)
              /\ \A j \in 2..Len(cmds) :
                    cmds[j] # VALIDATE_PLUGIN_VERSION =>
                        LET w == Words(cmds[j])
                        IN  /\ Len(w) >= 2
                            /\ w[2] \in Range(changedPlugins)
                            /\ Without(w, 2) = list

C15_Witness ==
    /\ ReachedReport
    /\ options.branch = MAIN
    /\ Len(outcomes) >= 2

----------------------------------------------------------------------------
\* the text is YES with nothing but spaces and newlines around it
YesInWhitespace(t) ==
    \E i \in 1..(Len(t) - 2) :
        /\ SubSeq(t, i, i + 2) = <<"Y", "E", "S">>
        /\ \A h \in 1..Len(t) : (h < i \/ h > i + 2) => t[h] \in {" ", "\n"}

AnsweredYes(o) == o.diffOk /\ o.policyOk /\ YesInWhitespace(o.text)

\* C16: a plugin is reported "Version update REQUIRED" and put on the list of
\* plugins needing an update exactly when its diff query and its policy check
\* both completed and the check printed YES, white space around it aside;
\* after anything else it is reported "No version update needed".
C16_RequiredIffTrimmedYes ==
    /\ LET report == Report
       IN  \A k \in 1..Len(outcomes) :
               report[k].label = IF AnsweredYes(outcomes[k]) THEN "update-required"
                                 ELSE "no-update-needed"
    /\ \A name \in Range(changedPlugins) :
          Cardinality({j \in 1..Len(pluginsNeedingUpdate) : pluginsNeedingUpdate[j] = name})
            = Cardinality({k \in 1..Len(outcomes) :
                              AnsweredYes(outcomes[k]) /\ changedPlugins[k] = name})
    /\ Range(pluginsNeedingUpdate) \subseteq Range(changedPlugins)

C16_Witness ==
    /\ Len(outcomes) >= 2
    /\ outcomes[1].policyOk /\ outcomes[1].text = <<SP>> \o YES
    /\ Report[1].label = "update-required"
    /\ ~outcomes[2].policyOk
    /\ Report[2].label = "no-update-needed"
    /\ Len(pluginsNeedingUpdate) = 1

====
